---- MODULE Spec2Model ----
(***************************************************************************)
(* Model of scripts/gha/summarize_test_results.py.                         *)
(*                                                                         *)
(* Text is modelled as a sequence of tokens: a Python str is a sequence of *)
(* TLA+ strings whose concatenation is the text, a Python list is a        *)
(* sequence, a Python set is a TLA+ set.  Iterating a Python set (str(),   *)
(* list(), a comprehension, flat_config) visits its elements in an order   *)
(* that depends on the hash seed and on the insertion history, so every    *)
(* operator that iterates a set yields the SET of its possible outcomes    *)
(* and the calling action picks one of them.                               *)
(***************************************************************************)
EXTENDS Integers, Sequences, FiniteSets, TLC

(***************************************************************************)
(* Bounds of the model.                                                    *)
(***************************************************************************)
MaxPlatforms == 3
MaxRecords == 1
MaxBuildFiles == 1
MaxUniverse == 5
MaxComponents == 2

(***************************************************************************)
(* Program constants.                                                      *)
(***************************************************************************)
\* mutant: the list is collapsed one entry too late
LIST_MAX_OffByOne == 3 + 1
LIST_MAX == 3
MISSING_LOG == "missing_log"
TESTAPPS_HEADER == "Failures"
CONFIGS_HEADER == "Configs"
LOG_HEADER == "INTEGRATION TEST FAILURES"
BUILD_FILE_PATTERN == <<"build-results-", "*", ".log.json">>
TEST_FILE_PATTERN == <<"test-results-", "*", ".log.json">>

(***************************************************************************)
(* print_matrix_configuration: the schema of configuration axes and the    *)
(* table of test devices.                                                  *)
(***************************************************************************)
Range(s) == {s[i] : i \in DOMAIN s}

BUILD_CONFIGS == <<"Platform(s)", "Test Device(s)">>

TEST_DEVICES ==
  [d \in {"android_target", "ios_target", "emulator_target", "simulator_target"} |->
     [type |-> IF d \in {"android_target", "ios_target"} THEN "real" ELSE "virtual"]]

(***************************************************************************)
(* Values exercised by the model on each axis.                             *)
(***************************************************************************)
PlatformNames == <<"android", "ios", "windows", "macos">>
DeviceNames == <<"android_target", "ios_target", "github_runner", "emulator_target",
                 "simulator_target">>
Platforms == {PlatformNames[i] : i \in 1..MaxPlatforms}
Devices == Range(DeviceNames)
AxisValues == <<Platforms, Devices>>
NumAxes == Len(BUILD_CONFIGS)

(***************************************************************************)
(* Helpers on sequences and text.                                          *)
(***************************************************************************)
\* every enumeration of the finite set S, each element once
Orders(S) == {s \in [1..Cardinality(S) -> S] : Range(s) = S}

RECURSIVE Concat(_)
Concat(ss) == IF ss = <<>> THEN <<>> ELSE Head(ss) \o Concat(Tail(ss))

\* sep.join(strs), strs a sequence of texts
RECURSIVE JoinText(_, _)
JoinText(strs, sep) ==
  IF strs = <<>> THEN <<>>
  ELSE IF Len(strs) = 1 THEN strs[1]
  ELSE strs[1] \o <<sep>> \o JoinText(Tail(strs), sep)

\* str(list).replace("'", ""): "[e1, e2]"
ListRepr(list) == <<"[">> \o JoinText(list, ", ") \o <<"]">>

\* the strings the model compares, in Python's (code point) order
SortedVocabulary ==
  <<"BUILD", "ERROR", "FAILURE", "FLAKINESS", "TEST",
    "android", "android_target", "app1", "app2", "emulator_target",
    "github_runner", "ios", "ios_target", "macos", "missing_log",
    "simulator_target", "windows">>
StrRank(s) == CHOOSE i \in DOMAIN SortedVocabulary : SortedVocabulary[i] = s

\* "%d" % n
FormatInt(n) == <<ToString(n)>>

\* type in "real", type in "virtual": Python's substring test
SubstringsOfReal == {"", "r", "e", "a", "l", "re", "ea", "al", "rea", "eal", "real"}
SubstringsOfVirtual ==
  {"", "v", "i", "r", "t", "u", "a", "l", "vi", "ir", "rt", "tu", "ua", "al",
   "vir", "irt", "rtu", "tua", "ual", "virt", "irtu", "rtua", "tual",
   "virtu", "irtua", "rtual", "virtua", "irtual", "virtual"}

(***************************************************************************)
(* flat_config on a set of strings, visited in the order `order`:          *)
(* the values joined by one blank.                                         *)
(***************************************************************************)
flat_config_values(order) == JoinText([i \in DOMAIN order |-> <<order[i]>>], " ")

(***************************************************************************)
(* flat_config on a list of lists of texts:                                *)
(* "[TEST] [FAILURE] [iOS] [simulator_min, simulator_target]".             *)
(***************************************************************************)
flat_config(configs) == JoinText([i \in DOMAIN configs |-> ListRepr(configs[i])], " ")

(***************************************************************************)
(* combine_config.  config and config_value are sets of values, k is the   *)
(* 0-based axis index.  The result is the set of possible outcomes, each   *)
(* either an AttributeError or the returned list of texts.                 *)
(***************************************************************************)
Raised == [raised |-> TRUE, value |-> <<>>]
Returned(list) == [raised |-> FALSE, value |-> list]

AllText(n, what) == <<"All ">> \o FormatInt(n) \o <<" ", what>>

\* mutant: the two counts of "k/N" are swapped
FractionText_Swapped(order, n, config_name) ==
  FormatInt(n) \o <<"/">> \o FormatInt(Len(order)) \o <<" ", config_name, ": ">>
    \o flat_config_values(order)

\* "%d/%d %s: %s" % (len(config), len(config_value), config_name, flat_config(config))
FractionText(order, n, config_name) ==
  FormatInt(Len(order)) \o <<"/">> \o FormatInt(n) \o <<" ", config_name, ": ">>
    \o flat_config_values(order)

\* list(config) / [x for x in config ...] of a set of texts
ListsOf(texts) == Orders(texts)

\* mutant: the guard len(config_value) > 1 is dropped
AllFailed_NoGuard(config, config_value) == Cardinality(config) = Cardinality(config_value)

\* len(config_value) > 1 and len(config) == len(config_value)
AllFailed(config, config_value) ==
  Cardinality(config_value) > 1 /\ Cardinality(config) = Cardinality(config_value)

combine_config(config, config_value, k) ==
  LET config_name == BUILD_CONFIGS[k + 1]
      n == Cardinality(config_value)
      asTexts(S) == {<<x>> : x \in S}
  IN
  IF AllFailed(config, config_value)
    THEN {Returned(<<AllText(n, config_name)>>)}
  ELSE
    LET isDevices == config_name = "Test Device(s)"
        ftl_devices == {d \in config_value :
                          d \in DOMAIN TEST_DEVICES /\ TEST_DEVICES[d].type \in SubstringsOfReal}
        virtual_devices == {d \in config_value :
                          d \in DOMAIN TEST_DEVICES /\ TEST_DEVICES[d].type \in SubstringsOfVirtual}
        ftl_hit == isDevices /\ Cardinality(ftl_devices) > 1 /\ ftl_devices \subseteq config
        \* the texts of config after the first if
        config1 == IF ftl_hit
                     THEN asTexts(config \ ftl_devices)
                            \cup {AllText(Cardinality(ftl_devices), "FTL Devices")}
                     ELSE asTexts(config)
        virtual_hit == isDevices /\ Cardinality(virtual_devices) > 1
                         /\ asTexts(virtual_devices) \subseteq config1
        config2 == IF virtual_hit
                     THEN (config1 \ asTexts(virtual_devices))
                            \cup {AllText(Cardinality(virtual_devices), "Virtual Devices")}
                     ELSE config1
    IN
    IF ftl_hit /\ virtual_hit
      THEN {Raised}                       \* config is a list by now: list.add
    ELSE IF ftl_hit \/ virtual_hit
      THEN {Returned(l) : l \in ListsOf(config2)}  \* a list never equals the saved set
    ELSE IF n > 1
      THEN {Returned(<<FractionText(order, n, config_name)>>) : order \in Orders(config)}
    ELSE {Returned(l) : l \in ListsOf(asTexts(config))}


(***************************************************************************)
(* combine_configs: combine_config on every axis, in order.  The outcomes  *)
(* are the lists of per-axis lists, or the AttributeError of an axis.      *)
(***************************************************************************)
RECURSIVE CombineFrom(_, _, _)
CombineFrom(error_configs, all_configs, i) ==
  IF i > Len(error_configs) THEN {Returned(<<>>)}
  ELSE
    LET here == combine_config(error_configs[i], all_configs[i], i - 1)
        rest == CombineFrom(error_configs, all_configs, i + 1)
    IN {IF h.raised \/ r.raised THEN Raised ELSE Returned(<<h.value>> \o r.value) :
          h \in here, r \in rest}

combine_configs(error_configs, all_configs) == CombineFrom(error_configs, all_configs, 1)

(***************************************************************************)
(* reorganize_configs: the per-axis sets of values of a list of            *)
(* configuration vectors (empty sets are dropped; an empty list is         *)
(* returned as it is).                                                     *)
(***************************************************************************)
\* mutant: the loop over the vectors is lost, one vector alone is read
reorganize_configs_OneVector(configs) ==
  IF configs = {} THEN <<>>
  ELSE LET c == CHOOSE c \in configs : TRUE
       IN [j \in 1..Len(BUILD_CONFIGS) |-> {c[j]}]

reorganize_configs(configs) ==
  IF configs = {} THEN <<>>
  ELSE LET sets == [j \in 1..Len(BUILD_CONFIGS) |-> {c[j] : c \in configs}]
           NonEmpty(config) == config # {}
       IN SelectSeq(sets, NonEmpty)

reorganize_all_tested_configs(tested_configs) ==
  [build_configs |-> reorganize_configs(tested_configs.build_configs),
   test_configs |-> reorganize_configs(tested_configs.test_configs)]

(***************************************************************************)
(* get_configs_from_file_name.  A file name is the glob pattern with its   *)
(* "*" replaced by the tokens of the matrix name; file_name_re is the      *)
(* pattern with "*" turned into the capture group.  Tokens are "-", " "    *)
(* and words without either.                                               *)
(***************************************************************************)
NameRe(pattern) == [i \in DOMAIN pattern |-> IF pattern[i] = "*" THEN "(.*)" ELSE pattern[i]]

\* re.search(file_name_re, file_name).groups(1)[0]
\* (a name the glob returned matches: it starts and ends as the pattern does)
Capture(file_name, file_name_re) ==
  IF file_name[1] = file_name_re[1] /\ file_name[Len(file_name)] = file_name_re[Len(file_name_re)]
    THEN SubSeq(file_name, 2, Len(file_name) - 1)
    ELSE <<>>

\* mutant: the hyphens are not replaced
SubHyphens_Kept(text) == text

\* re.sub('-', ' ', text)
SubHyphens(text) == [i \in DOMAIN text |-> IF text[i] = "-" THEN " " ELSE text[i]]

\* text.split(): the words between runs of blanks
SplitWords(text) == LET IsWord(t) == t # " " IN SelectSeq(text, IsWord)

get_configs_from_file_name(file_name, file_name_re) ==
  LET configs == SplitWords(SubHyphens(Capture(file_name, file_name_re)))
      NotLatest(config) == config # "latest"
  IN IF "latest" \in Range(configs) THEN SelectSeq(configs, NotLatest) ELSE configs


(***************************************************************************)
(* sorted() of a set of texts.  Texts are compared token by token at the   *)
(* first place where they differ.                                          *)
(***************************************************************************)
TextLess(a, b) ==
  \E i \in 1..Len(a) + 1 :
    /\ i <= Len(b)
    /\ \A j \in 1..(i - 1) : a[j] = b[j]
    /\ \/ i = Len(a) + 1
       \/ i <= Len(a) /\ a[i] # b[i] /\ StrRank(a[i]) < StrRank(b[i])

Sorted(texts) ==
  CHOOSE s \in Orders(texts) : \A i, j \in DOMAIN s : i < j => TextLess(s[i], s[j])

\* re.sub(r'\b \b', space_char, text): a blank between two words
SubSpaces(text, space_char) ==
  [i \in DOMAIN text |->
     IF text[i] = " " /\ 1 < i /\ i < Len(text) /\ text[i - 1] # " " /\ text[i + 1] # " "
       THEN space_char ELSE text[i]]

\* text.ljust(width) for the width 0 that every caller passes
Ljust0(text) == text

(***************************************************************************)
(* format_result.  config_tests maps each config label to its list of      *)
(* failed tests.                                                           *)
(***************************************************************************)
format_result(config_tests, space_char, list_separator) ==
  LET Item(config) ==
        LET tests == config_tests[config] IN
        IF Len(tests) > 0
          THEN config \o <<"<details><summary>(">> \o FormatInt(Len(tests))
                 \o <<" failed tests)</summary>">>
                 \o JoinText(Sorted({<<space_char, space_char, tests[i]>> : i \in DOMAIN tests}),
                             list_separator)
                 \o <<"</details>">>
          ELSE config \o <<list_separator>>
      config_set == {Item(config) : config \in DOMAIN config_tests}
  IN IF Cardinality(config_set) > LIST_MAX
       THEN <<"<details><summary>(">> \o FormatInt(Cardinality(config_set))
              \o <<" items)</summary>">> \o Concat(Sorted(config_set)) \o <<"</details>">>
       ELSE Ljust0(Concat(Sorted(config_set)))

(***************************************************************************)
(* print_table.  log_results maps each testapp to its config_tests.        *)
(***************************************************************************)
TableLine(columns) == <<"|">> \o Concat([i \in DOMAIN columns |-> <<" ">> \o columns[i] \o <<" |">>])

\* re.sub("[^|]", "-", header): one dash for each token of the header
Dashes(header) == [i \in DOMAIN header |-> IF header[i] = "|" THEN "|" ELSE "-"]

print_table(log_results, space_char, list_separator) ==
  LET headers == <<SubSpaces(Ljust0(<<TESTAPPS_HEADER>>), space_char),
                   SubSpaces(Ljust0(<<CONFIGS_HEADER>>), space_char)>>
      Row(testapp) ==
        TableLine(<<SubSpaces(Ljust0(<<testapp>>), space_char),
                    format_result(log_results[testapp], space_char, list_separator)>>)
      rest == DOMAIN log_results \ {MISSING_LOG}
      names == Sorted({<<t>> : t \in rest})
  IN <<TableLine(headers)>>
       \o <<<<"|">> \o Concat([i \in DOMAIN headers |-> <<"-">> \o Dashes(headers[i]) \o <<"-|">>])>>
       \o (IF MISSING_LOG \in DOMAIN log_results THEN <<Row(MISSING_LOG)>> ELSE <<>>)
       \o [i \in DOMAIN names |-> Row(names[i][1])]

print_markdown_table(log_results) == print_table(log_results, "&nbsp;", "<br/>")

(***************************************************************************)
(* print_log.  testapps is the order of the keys of log_results, configs   *)
(* the order of the labels of each testapp.                                *)
(***************************************************************************)
print_log(log_results, testapps, configs) ==
  LET Block(testapp) ==
        <<<<>>, <<testapp, ":">>>>
          \o (IF Len(configs[testapp]) > 0
                THEN <<<<"  Errors and Failures (">> \o FormatInt(Len(configs[testapp])) \o <<"):">>>>
                ELSE <<>>)
          \o Concat([i \in DOMAIN configs[testapp] |->
               <<<<"  - ">> \o configs[testapp][i]>>
                 \o (IF Len(log_results[testapp][configs[testapp][i]]) > 0
                       THEN <<<<"    - failed tests: ">>
                                \o ListRepr([j \in DOMAIN log_results[testapp][configs[testapp][i]] |->
                                               <<log_results[testapp][configs[testapp][i]][j]>>])>>
                       ELSE <<>>)])
      output_lines == Concat([i \in DOMAIN testapps |-> Block(testapps[i])])
  IN IF output_lines = <<>> THEN <<>> ELSE Tail(output_lines)

print_github_log(log_results, testapps, configs) ==
  <<JoinText(<<<<"::error ::", LOG_HEADER>>, Dashes(<<LOG_HEADER>>), <<>>>>
               \o print_log(log_results, testapps, configs), "%0A")>>

(***************************************************************************)
(* reorganize_log.  log_data maps each testapp to the configuration        *)
(* vectors of its build errors, test errors, test failures and flakiness.  *)
(* An outcome is the AttributeError of combine_config or the dictionary    *)
(* log_results with the order in which its labels were inserted.           *)
(***************************************************************************)
Categories ==
  <<[key |-> "build", universe |-> "build_configs", head |-> <<<<<<"BUILD">>>>, <<<<"ERROR">>>>>>],
    [key |-> "errors", universe |-> "test_configs", head |-> <<<<<<"TEST">>>>, <<<<"ERROR">>>>>>],
    [key |-> "failures", universe |-> "test_configs", head |-> <<<<<<"TEST">>>>, <<<<"FAILURE">>>>>>],
    [key |-> "flakiness", universe |-> "test_configs", head |-> <<<<<<"TEST">>>>, <<<<"FLAKINESS">>>>>>]>>

\* the labels of one category of one testapp: none, or the outcomes of one label
CategoryLabels(errors, all_tested_configs, c) ==
  IF errors[Categories[c].key] = {} THEN {Returned(<<>>)}
  ELSE {IF combined.raised THEN Raised
        ELSE Returned(<<flat_config(Categories[c].head \o combined.value)>>) :
          combined \in combine_configs(reorganize_configs(errors[Categories[c].key]),
                                       all_tested_configs[Categories[c].universe])}

RECURSIVE TestappLabels(_, _, _)
TestappLabels(errors, all_tested_configs, c) ==
  IF c > Len(Categories) THEN {Returned(<<>>)}
  ELSE {IF h.raised \/ r.raised THEN Raised ELSE Returned(h.value \o r.value) :
          h \in CategoryLabels(errors, all_tested_configs, c),
          r \in TestappLabels(errors, all_tested_configs, c + 1)}

reorganize_log(log_data, all_tested_configs) ==
  LET per == [testapp \in DOMAIN log_data |->
                TestappLabels(log_data[testapp], all_tested_configs, 1)]
      picks == {f \in [DOMAIN log_data -> UNION {per[t] : t \in DOMAIN log_data}] :
                  \A t \in DOMAIN log_data : f[t] \in per[t]}
  IN {IF \E t \in DOMAIN f : f[t].raised THEN [raised |-> TRUE, configs |-> <<>>, log_results |-> <<>>]
      ELSE [raised |-> FALSE,
            configs |-> [t \in DOMAIN f |-> f[t].value],
            log_results |-> [t \in DOMAIN f |-> [config \in Range(f[t].value) |-> <<>>]]] :
        f \in picks}

(***************************************************************************)
(* summarize_logs.                                                         *)
(***************************************************************************)
Testapps == {"app1"}

\* the text of a result file: one that holds "__SUMMARY_MISSING__", or the JSON
\* maps (their keys)
SentinelText == [missing |-> TRUE, errors |-> {}, failures |-> {}, flakiness |-> {}]
JsonTexts ==
  {t \in [missing : {FALSE}, errors : SUBSET Testapps, failures : SUBSET Testapps,
          flakiness : SUBSET Testapps] :
     Cardinality(t.errors) + Cardinality(t.failures) + Cardinality(t.flakiness) <= MaxRecords}
\* the build loop reads the errors map alone
BuildJsonTexts == {t \in JsonTexts : t.failures = {} /\ t.flakiness = {}}

\* the file of the matrix cell `configs` under a glob pattern
FileName(pattern, matrix) == <<pattern[1]>> \o matrix \o <<pattern[3]>>
Matrix(configs) == JoinText([i \in DOMAIN configs |-> <<configs[i]>>], "-")

ScanPlatforms == {PlatformNames[1]}
BuildFileNames ==
  {FileName(BUILD_FILE_PATTERN, Matrix(<<p, d>>)) :
     p \in ScanPlatforms, d \in {"android_target", "github_runner"}}
TestFileNames ==
  {FileName(TEST_FILE_PATTERN, Matrix(<<p, d>>)) : p \in ScanPlatforms, d \in Devices}

NoErrors == [build |-> {}, errors |-> {}, failures |-> {}, flakiness |-> {}]

\* log_data.setdefault(testapp, {}).setdefault(key, []).append(configs), for each testapp
SetDefaultAppend(log_data, testapps, key, configs) ==
  [t \in DOMAIN log_data \cup testapps |->
     LET old == IF t \in DOMAIN log_data THEN log_data[t] ELSE NoErrors
     IN IF t \in testapps THEN [old EXCEPT ![key] = @ \cup {configs}] ELSE old]

\* mutant: the test of log_data is inverted
NothingToLog_Inverted(success, log_data) == success /\ DOMAIN log_data # {}

\* success_or_only_flakiness and log_data is empty: nothing to log
NothingToLog(success, log_data) == success /\ DOMAIN log_data = {}

None == <<"None">>


VARIABLES
  pc,                         \* "build", "test": the loop being run; "returned"; "raised"
  build_log_files,            \* the build result files read so far: [name, text]
  test_log_files,             \* the test result files read so far: [name, text]
  success_or_only_flakiness,
  log_data,
  all_tested_configs,
  log_results,                \* the outcome of reorganize_log, once called
  log_lines,                  \* the lines printed
  result,                     \* the pair returned: [success, summary]
  flags,                      \* the arguments markdown and github_log
  cc_pc, cc_config, cc_config_value, cc_k, cc_result,
  rc_pc, rc_universe, rc_failed, rc_combined, rc_label,
  fn_pc, fn_configs, fn_pattern, fn_file_name, fn_result

scan_vars == <<pc, build_log_files, test_log_files, success_or_only_flakiness, log_data,
               all_tested_configs, log_results, log_lines, result, flags>>
cc_vars == <<cc_pc, cc_config, cc_config_value, cc_k, cc_result>>
rc_vars == <<rc_pc, rc_universe, rc_failed, rc_combined, rc_label>>
fn_vars == <<fn_pc, fn_configs, fn_pattern, fn_file_name, fn_result>>

vars == <<scan_vars, cc_vars, rc_vars, fn_vars>>

NotCalled == [raised |-> FALSE, configs |-> <<>>, log_results |-> <<>>]
NoResult == [success |-> FALSE, summary |-> <<>>]

ScanIdle ==
  /\ pc = "idle"
  /\ build_log_files = {}
  /\ test_log_files = {}
  /\ success_or_only_flakiness = TRUE
  /\ log_data = <<>>
  /\ all_tested_configs = [build_configs |-> {}, test_configs |-> {}]
  /\ log_results = NotCalled
  /\ log_lines = <<>>
  /\ result = NoResult
  /\ flags = [markdown |-> FALSE, github_log |-> FALSE]

CombineIdle ==
  /\ cc_pc = "idle" /\ cc_config = {} /\ cc_config_value = {} /\ cc_k = 0 /\ cc_result = Raised

AggregateIdle ==
  /\ rc_pc = "idle" /\ rc_universe = {} /\ rc_failed = <<>> /\ rc_combined = <<>> /\ rc_label = <<>>

FileNameIdle ==
  /\ fn_pc = "idle" /\ fn_configs = <<>> /\ fn_pattern = <<>> /\ fn_file_name = <<>>
  /\ fn_result = <<>>

(***************************************************************************)
(* summarize_logs, one step per file read and one for the rest.            *)
(***************************************************************************)
Init ==
  /\ pc = "build"
  /\ build_log_files = {}
  /\ test_log_files = {}
  /\ success_or_only_flakiness = TRUE
  /\ log_data = <<>>
  /\ all_tested_configs = [build_configs |-> {}, test_configs |-> {}]
  /\ log_results = NotCalled
  /\ log_lines = <<>>
  /\ result = NoResult
  /\ flags = [markdown |-> FALSE, github_log |-> FALSE]
  /\ CombineIdle /\ AggregateIdle /\ FileNameIdle

\* one round of the loop over build_log_files
ScanBuildLog ==
  /\ pc = "build"
  /\ Cardinality(build_log_files) < MaxBuildFiles
  /\ \E build_log_file \in BuildFileNames \ {f.name : f \in build_log_files},
        log_text \in {SentinelText} \cup BuildJsonTexts :
       LET configs == get_configs_from_file_name(build_log_file, NameRe(BUILD_FILE_PATTERN)) IN
       /\ build_log_files' = build_log_files \cup {[name |-> build_log_file, text |-> log_text]}
       /\ all_tested_configs' = [all_tested_configs EXCEPT !.build_configs = @ \cup {configs}]
       /\ IF log_text.missing
            THEN /\ success_or_only_flakiness' = FALSE
                 /\ log_data' = SetDefaultAppend(log_data, {MISSING_LOG}, "build", configs)
            ELSE /\ success_or_only_flakiness' =
                      (IF log_text.errors # {} THEN FALSE ELSE success_or_only_flakiness)
                 /\ log_data' = SetDefaultAppend(log_data, log_text.errors, "build", configs)
  /\ UNCHANGED <<pc, test_log_files, log_results, log_lines, result, flags>>
  /\ UNCHANGED <<cc_vars, rc_vars, fn_vars>>

\* one round of the loop over test_log_files (the first one ends the build loop)
ScanTestLog ==
  /\ pc \in {"build", "test"}
  /\ pc' = "test"
  /\ \E test_log_file \in TestFileNames \ {f.name : f \in test_log_files},
        log_text \in {SentinelText} \cup JsonTexts :
       LET configs == get_configs_from_file_name(test_log_file, NameRe(TEST_FILE_PATTERN)) IN
       /\ test_log_files' = test_log_files \cup {[name |-> test_log_file, text |-> log_text]}
       /\ all_tested_configs' = [all_tested_configs EXCEPT !.test_configs = @ \cup {configs}]
       /\ IF log_text.missing
            THEN /\ success_or_only_flakiness' = FALSE
                 /\ log_data' = SetDefaultAppend(log_data, {MISSING_LOG}, "errors", configs)
            ELSE /\ success_or_only_flakiness' =
                      (IF log_text.errors # {} \/ log_text.failures # {}
                         THEN FALSE ELSE success_or_only_flakiness)
                 /\ log_data' =
                      SetDefaultAppend(
                        SetDefaultAppend(
                          SetDefaultAppend(log_data, log_text.errors, "errors", configs),
                          log_text.failures, "failures", configs),
                        log_text.flakiness, "flakiness", configs)
  /\ UNCHANGED <<build_log_files, log_results, log_lines, result, flags>>
  /\ UNCHANGED <<cc_vars, rc_vars, fn_vars>>

\* no failures and no flakiness occurred: return (success_or_only_flakiness, None)
ReturnNothing ==
  /\ pc \in {"build", "test"}
  /\ NothingToLog(success_or_only_flakiness, log_data)
  /\ pc' = "returned"
  /\ result' = [success |-> success_or_only_flakiness, summary |-> None]
  /\ \E markdown, github_log \in BOOLEAN :
       flags' = [markdown |-> markdown, github_log |-> github_log]
  /\ UNCHANGED <<build_log_files, test_log_files, success_or_only_flakiness, log_data,
                 all_tested_configs, log_results, log_lines>>
  /\ UNCHANGED <<cc_vars, rc_vars, fn_vars>>

\* reorganize, print and return (success_or_only_flakiness, log_summary)
Summarize ==
  /\ pc \in {"build", "test"}
  /\ ~NothingToLog(success_or_only_flakiness, log_data)
  /\ \E outcome \in reorganize_log(log_data, reorganize_all_tested_configs(all_tested_configs)),
        markdown, github_log \in BOOLEAN :
       /\ log_results' = outcome
       /\ flags' = [markdown |-> markdown, github_log |-> github_log]
       /\ IF outcome.raised
            THEN /\ pc' = "raised"
                 /\ UNCHANGED <<log_lines, result>>
            ELSE /\ pc' = "returned"
                 /\ \E lines \in
                       IF markdown THEN {print_markdown_table(outcome.log_results)}
                       ELSE IF github_log
                         THEN {print_github_log(outcome.log_results, testapps, outcome.configs) :
                                 testapps \in Orders(DOMAIN outcome.log_results)}
                       ELSE {print_log(outcome.log_results, testapps, outcome.configs) :
                               testapps \in Orders(DOMAIN outcome.log_results)} :
                      /\ log_lines' = lines
                      /\ result' = [success |-> success_or_only_flakiness,
                                    summary |-> JoinText(lines, "\n")]
  /\ UNCHANGED <<build_log_files, test_log_files, success_or_only_flakiness, log_data,
                 all_tested_configs>>
  /\ UNCHANGED <<cc_vars, rc_vars, fn_vars>>

Next == ScanBuildLog \/ ScanTestLog \/ ReturnNothing \/ Summarize

Spec == Init /\ [][Next]_vars

(***************************************************************************)
(* combine_config as a function of its arguments.                          *)
(***************************************************************************)
InitCombine ==
  /\ cc_pc = "call"
  /\ cc_k \in 0..(NumAxes - 1)
  /\ cc_config_value \in (SUBSET AxisValues[cc_k + 1]) \ {{}}
  /\ cc_config \in (SUBSET cc_config_value) \ {{}}
  /\ cc_result = Raised
  /\ ScanIdle /\ AggregateIdle /\ FileNameIdle

CallCombineConfig ==
  /\ cc_pc = "call"
  /\ \E outcome \in combine_config(cc_config, cc_config_value, cc_k) :
       cc_result' = outcome
  /\ cc_pc' = "done"
  /\ UNCHANGED <<cc_config, cc_config_value, cc_k>>
  /\ UNCHANGED <<scan_vars, rc_vars, fn_vars>>

NextCombine == CallCombineConfig

SpecCombine == InitCombine /\ [][NextCombine]_vars

(***************************************************************************)
(* The label of one category (reorganize_log, lines 296-301) for two sets  *)
(* of failed configuration vectors under one universe.                     *)
(***************************************************************************)
AggPlatforms == {"android", "ios", "windows"}
AggDevices == {"android_target", "github_runner"}
AggVectors == {<<p, d>> : p \in AggPlatforms, d \in AggDevices}

InitAggregate ==
  /\ rc_pc = "call"
  /\ rc_universe \in {u \in (SUBSET AggVectors) \ {{}} : Cardinality(u) <= MaxUniverse}
  /\ rc_failed \in ((SUBSET rc_universe) \ {{}}) \X ((SUBSET rc_universe) \ {{}})
  /\ rc_combined = <<>>
  /\ rc_label = <<>>
  /\ ScanIdle /\ CombineIdle /\ FileNameIdle

Aggregate ==
  /\ rc_pc = "call"
  /\ \E c1 \in combine_configs(reorganize_configs(rc_failed[1]), reorganize_configs(rc_universe)),
        c2 \in combine_configs(reorganize_configs(rc_failed[2]), reorganize_configs(rc_universe)) :
       \* the same vectors, appended in the same order, build the same sets
       /\ rc_failed[1] = rc_failed[2] => c1 = c2
       /\ rc_combined' = <<c1, c2>>
       /\ rc_label' = <<IF c1.raised THEN <<>> ELSE flat_config(Categories[1].head \o c1.value),
                        IF c2.raised THEN <<>> ELSE flat_config(Categories[1].head \o c2.value)>>
  /\ rc_pc' = "done"
  /\ UNCHANGED <<rc_universe, rc_failed>>
  /\ UNCHANGED <<scan_vars, cc_vars, fn_vars>>

NextAggregate == Aggregate

SpecAggregate == InitAggregate /\ [][NextAggregate]_vars

(***************************************************************************)
(* A configuration vector written into a file name and read back.          *)
(***************************************************************************)
Components ==
  {<<"android">>, <<"ios">>, <<"latest">>, <<"windows", "-", "latest">>,
   <<"iPhone", " ", "8">>, <<>>}
Vectors == UNION {[1..n -> Components] : n \in 1..MaxComponents}

InitFileName ==
  /\ fn_pc = "name"
  /\ fn_configs \in Vectors
  /\ fn_pattern \in {BUILD_FILE_PATTERN, TEST_FILE_PATTERN}
  /\ fn_file_name = <<>>
  /\ fn_result = <<>>
  /\ ScanIdle /\ CombineIdle /\ AggregateIdle

\* the result file of the matrix cell fn_configs
WriteFileName ==
  /\ fn_pc = "name"
  /\ fn_file_name' = FileName(fn_pattern, JoinText(fn_configs, "-"))
  /\ fn_pc' = "parse"
  /\ UNCHANGED <<fn_configs, fn_pattern, fn_result>>
  /\ UNCHANGED <<scan_vars, cc_vars, rc_vars>>

ReadFileName ==
  /\ fn_pc = "parse"
  /\ fn_result' = get_configs_from_file_name(fn_file_name, NameRe(fn_pattern))
  /\ fn_pc' = "done"
  /\ UNCHANGED <<fn_configs, fn_pattern, fn_file_name>>
  /\ UNCHANGED <<scan_vars, cc_vars, rc_vars>>

NextFileName == WriteFileName \/ ReadFileName

SpecFileName == InitFileName /\ [][NextFileName]_vars

(***************************************************************************)
(* The claims.                                                             *)
(***************************************************************************)
Files == build_log_files \cup test_log_files
Finished == pc \in {"returned", "raised"}
SentinelIn(files) == \E f \in files : f.text.missing
OccursIn(testapp, files, key) == \E f \in files : ~f.text.missing /\ testapp \in f.text[key]
Clean ==
  \A f \in Files : ~f.text.missing /\ f.text.errors = {} /\ f.text.failures = {}
                     /\ f.text.flakiness = {}
CountToken(text, token) == Cardinality({i \in DOMAIN text : text[i] = token})
Aggregated == log_results.log_results
HasLabel(testapp, stage, category) ==
  /\ testapp \in DOMAIN Aggregated
  /\ \E label \in DOMAIN Aggregated[testapp] :
       /\ Len(label) >= 7
       /\ SubSeq(label, 1, 7) = <<"[", stage, "]", " ", "[", category, "]">>

\* C1: when no file holds the sentinel and every errors, failures and flakiness
\* map is empty, summarize_logs can only return, and returns (True, None),
\* however many files were read and in whatever order.
C1_CleanRunReturnsTrueNone ==
  Clean =>
    /\ pc # "raised"
    /\ pc \in {"build", "test"} => ~ENABLED Summarize
    /\ pc = "returned" => result = [success |-> TRUE, summary |-> None]

C1_Witness ==
  /\ pc = "returned" /\ Clean
  /\ build_log_files # {} /\ Cardinality(test_log_files) >= 2

\* C4: in Markdown mode the table has one row per testapp; the configs cell of a
\* testapp with n distinct entries holds those n entries, is wrapped whole in one
\* "<details><summary>(n items)</summary>...</details>" when n > 3, and holds no
\* such wrapper (so at most 3 entries inline) when n <= 3.
IsTable == pc = "returned" /\ flags.markdown /\ result.summary # None

C4_MarkdownCollapsesLongCells ==
  IsTable =>
    /\ Len(log_lines) = 2 + Cardinality(DOMAIN Aggregated)
    /\ \A t \in DOMAIN Aggregated : \E i \in 3..Len(log_lines) : log_lines[i][3] = t
    /\ \A i \in 3..Len(log_lines) :
         LET line == log_lines[i]
             cell == SubSeq(line, 6, Len(line) - 1)
             n == Cardinality(DOMAIN Aggregated[line[3]])
         IN /\ CountToken(cell, "<br/>") = n
            /\ IF n > 3
                 THEN /\ SubSeq(cell, 1, 3) = <<"<details><summary>(", ToString(n), " items)</summary>">>
                      /\ cell[Len(cell)] = "</details>"
                      /\ CountToken(cell, "<details><summary>(") = 1
                      /\ CountToken(cell, "</details>") = 1
                 ELSE /\ CountToken(cell, "<details><summary>(") = 0
                      /\ CountToken(cell, "</details>") = 0

C4_Witness ==
  /\ IsTable
  /\ \E i \in 3..Len(log_lines) :
       /\ Cardinality(DOMAIN Aggregated[log_lines[i][3]]) = 4
       /\ log_lines[i][6] = "<details><summary>("
  /\ \E i \in 3..Len(log_lines) : Cardinality(DOMAIN Aggregated[log_lines[i][3]]) = 1

\* C5: once a build or test file holding the sentinel was read, whatever the
\* other files hold, summarize_logs returns success False with a summary text,
\* and the aggregated result holds "missing_log" with a [BUILD] [ERROR] label
\* (sentinel in a build file) or a [TEST] [ERROR] label (sentinel in a test file).
C5_SentinelReported ==
  (Finished /\ SentinelIn(Files)) =>
    /\ pc = "returned"
    /\ result.success = FALSE
    /\ result.summary # None
    /\ SentinelIn(build_log_files) => HasLabel(MISSING_LOG, "BUILD", "ERROR")
    /\ SentinelIn(test_log_files) => HasLabel(MISSING_LOG, "TEST", "ERROR")

\* C5 restricted to the runs in which combine_config does not raise
C5_SentinelReportedUnlessRaised == pc = "raised" \/ C5_SentinelReported

\* C6: after sentinel-free files were read, the aggregated result has a key for
\* testapp T exactly when T occurs in some map that was read, and T has a label
\* [BUILD] [ERROR], [TEST] [ERROR], [TEST] [FAILURE], [TEST] [FLAKINESS] exactly
\* when T occurs in a build file's errors, a test file's errors, failures,
\* flakiness; nothing else is reported.
C6_AggregationNamesTestappAndCategory ==
  (Finished /\ ~SentinelIn(Files)) =>
    /\ pc = "returned"
    /\ DOMAIN Aggregated \subseteq Testapps
    /\ \A T \in Testapps :
         /\ T \in DOMAIN Aggregated <=>
              \/ OccursIn(T, build_log_files, "errors")
              \/ \E key \in {"errors", "failures", "flakiness"} : OccursIn(T, test_log_files, key)
         /\ HasLabel(T, "BUILD", "ERROR") <=> OccursIn(T, build_log_files, "errors")
         /\ HasLabel(T, "TEST", "ERROR") <=> OccursIn(T, test_log_files, "errors")
         /\ HasLabel(T, "TEST", "FAILURE") <=> OccursIn(T, test_log_files, "failures")
         /\ HasLabel(T, "TEST", "FLAKINESS") <=> OccursIn(T, test_log_files, "flakiness")
         /\ T \in DOMAIN Aggregated =>
              \A label \in DOMAIN Aggregated[T] :
                \E h \in {<<"BUILD", "ERROR">>, <<"TEST", "ERROR">>, <<"TEST", "FAILURE">>,
                          <<"TEST", "FLAKINESS">>} :
                  SubSeq(label, 1, 7) = <<"[", h[1], "]", " ", "[", h[2], "]">>

\* C6 restricted to the runs in which combine_config does not raise
C6_AggregationUnlessRaised == pc = "raised" \/ C6_AggregationNamesTestappAndCategory

\* C8: at return the success flag is False exactly when some file held the
\* sentinel, a non-empty errors map or a non-empty failures map, and an input
\* whose only records are flakiness entries returns (True, summary text).
FailureSeen ==
  \/ SentinelIn(Files)
  \/ \E f \in Files : ~f.text.missing /\ (f.text.errors # {} \/ f.text.failures # {})
OnlyFlakiness == ~FailureSeen /\ \E f \in test_log_files : f.text.flakiness # {}

C8_SuccessFlagAtReturn ==
  /\ pc = "returned" => result.success = ~FailureSeen
  /\ (Finished /\ OnlyFlakiness) =>
       /\ pc = "returned"
       /\ result.success
       /\ result.summary # None

\* C8 restricted to the runs in which combine_config does not raise
C8_SuccessFlagUnlessRaised == pc = "raised" \/ C8_SuccessFlagAtReturn

\* C8, during the scan: the flag is the negation of what was seen so far, and
\* once False it is never set back to True
C8_FlagDuringScan == success_or_only_flakiness = ~FailureSeen
C8_FlagNeverReset ==
  [][success_or_only_flakiness = FALSE => success_or_only_flakiness' = FALSE]_vars

\* C2 as written: whenever the failing values are the whole universe of the
\* axis (N >= 1), combine_config returns the single entry "All N <axis>".
AllEntry(n, axis) == <<"All ", ToString(n), " ", axis>>

C2_AllOfAnyUniverse ==
  (cc_pc = "done" /\ cc_config = cc_config_value) =>
    cc_result = [raised |-> FALSE,
                 value |-> <<AllEntry(Cardinality(cc_config_value), BUILD_CONFIGS[cc_k + 1])>>]

\* C2 as amended: when the failing values are the whole universe of the axis,
\* combine_config returns the single entry "All N <axis>" if N >= 2, and the bare
\* value alone if N = 1.
C2_AllOfUniverse ==
  (cc_pc = "done" /\ cc_config = cc_config_value) =>
    IF Cardinality(cc_config_value) >= 2
      THEN cc_result = [raised |-> FALSE,
                        value |-> <<AllEntry(Cardinality(cc_config_value), BUILD_CONFIGS[cc_k + 1])>>]
      ELSE \E v \in cc_config : cc_result = [raised |-> FALSE, value |-> <<<<v>>>>]

C2_Witness ==
  /\ cc_pc = "done" /\ cc_config = cc_config_value /\ Cardinality(cc_config_value) = 3
  /\ cc_result.value = <<<<"All ", "3", " ", "Platform(s)">>>>

\* C3 as written: whenever the k failing values are a non-empty strict subset of
\* the N universe values, combine_config returns the single entry "k/N <axis>: "
\* followed by the k failing values in sorted order.
StrictSubset == cc_config # {} /\ cc_config \subseteq cc_config_value /\ cc_config # cc_config_value
FractionEntry(order, n, axis) ==
  <<ToString(Len(order)), "/", ToString(n), " ", axis, ": ">>
    \o [i \in 1..(2 * Len(order) - 1) |-> IF i % 2 = 1 THEN order[(i + 1) \div 2] ELSE " "]
InOrder(order) == \A i, j \in DOMAIN order : i < j => StrRank(order[i]) < StrRank(order[j])

C3_SubsetSorted ==
  (cc_pc = "done" /\ StrictSubset) =>
    \E order \in Orders(cc_config) :
      /\ InOrder(order)
      /\ cc_result = [raised |-> FALSE,
                      value |-> <<FractionEntry(order, Cardinality(cc_config_value),
                                                BUILD_CONFIGS[cc_k + 1])>>]

\* C3 as amended: whenever the k failing values are a non-empty strict subset of
\* the N universe values and, on the axis "Test Device(s)", hold neither all (two
\* or more) real devices nor all (two or more) virtual devices of the universe,
\* combine_config returns the single entry "k/N <axis>: " followed by the k
\* failing values, each once, in some order (the iteration order of the set).
DevicesOfType(type) == {d \in cc_config_value : d \in DOMAIN TEST_DEVICES /\ TEST_DEVICES[d].type = type}
GroupFailed(type) ==
  /\ BUILD_CONFIGS[cc_k + 1] = "Test Device(s)"
  /\ Cardinality(DevicesOfType(type)) >= 2
  /\ DevicesOfType(type) \subseteq cc_config

C3_SubsetListed ==
  (cc_pc = "done" /\ StrictSubset /\ ~GroupFailed("real") /\ ~GroupFailed("virtual")) =>
    \E order \in Orders(cc_config) :
      cc_result = [raised |-> FALSE,
                   value |-> <<FractionEntry(order, Cardinality(cc_config_value),
                                             BUILD_CONFIGS[cc_k + 1])>>]

C3_Witness ==
  /\ cc_pc = "done" /\ StrictSubset /\ ~GroupFailed("real") /\ ~GroupFailed("virtual")
  /\ Cardinality(cc_config) = 2 /\ Cardinality(cc_config_value) = 3
  /\ \E order \in Orders(cc_config) :
       /\ ~InOrder(order)
       /\ cc_result.value = <<FractionEntry(order, 3, BUILD_CONFIGS[cc_k + 1])>>

\* C10: on the axis "Test Device(s)", for every failing set that is a strict
\* subset of the universe, combine_config returns normally; if the failing set
\* holds all r >= 2 real devices of the universe the result holds "All r FTL
\* Devices" and none of them singly, and likewise "All v Virtual Devices" for all
\* v >= 2 virtual devices, also when both hold at once.
GroupEntry(type, what) == <<"All ", ToString(Cardinality(DevicesOfType(type))), " ", what>>
GroupRendered(type, what) ==
  GroupFailed(type) =>
    /\ GroupEntry(type, what) \in Range(cc_result.value)
    /\ \A d \in DevicesOfType(type) : <<d>> \notin Range(cc_result.value)

C10_DeviceGroups ==
  (cc_pc = "done" /\ StrictSubset /\ BUILD_CONFIGS[cc_k + 1] = "Test Device(s)") =>
    /\ ~cc_result.raised
    /\ GroupRendered("real", "FTL Devices")
    /\ GroupRendered("virtual", "Virtual Devices")

\* C10 restricted to the failing sets that do not hold both groups at once
C10_OneDeviceGroup ==
  (GroupFailed("real") /\ GroupFailed("virtual")) \/ C10_DeviceGroups

\* C9 as written: two sets of failing vectors with the same per-axis projections
\* get the same label under the same universe.
Projection(vectors, i) == {c[i] : c \in vectors}
SameProjections == \A i \in 1..NumAxes : Projection(rc_failed[1], i) = Projection(rc_failed[2], i)

C9_SameLabel == (rc_pc = "done" /\ SameProjections) => rc_label[1] = rc_label[2]

\* C9 as amended: the entry of axis i is one of the renderings combine_config
\* gives for (the values failing on axis i, the universe values of axis i), so two
\* sets of failing vectors with the same per-axis projections get labels that are
\* equal up to the order in which the values are listed.
SameUpToOrder(a, b) ==
  /\ Len(a) = Len(b)
  /\ \A t \in Range(a) \cup Range(b) : CountToken(a, t) = CountToken(b, t)

C9_PerAxis ==
  rc_pc = "done" =>
    /\ \A n \in 1..2 :
         IF rc_combined[n].raised
           THEN \E i \in 1..NumAxes :
                  Raised \in combine_config(Projection(rc_failed[n], i),
                                            Projection(rc_universe, i), i - 1)
           ELSE /\ Len(rc_combined[n].value) = NumAxes
                /\ \A i \in 1..NumAxes :
                     Returned(rc_combined[n].value[i]) \in
                       combine_config(Projection(rc_failed[n], i), Projection(rc_universe, i), i - 1)
    /\ SameProjections =>
         /\ rc_combined[1].raised = rc_combined[2].raised
         /\ SameUpToOrder(rc_label[1], rc_label[2])

C9_Witness ==
  /\ rc_pc = "done" /\ SameProjections
  /\ rc_failed[1] \cap rc_failed[2] = {}
  /\ rc_label[1] # rc_label[2]

\* C7 as written: every configuration vector joined with '-' into a file name
\* is read back by get_configs_from_file_name as the same vector.
AsTexts(configs) == [i \in DOMAIN configs |-> <<configs[i]>>]

C7_RoundTrip == fn_pc = "done" => AsTexts(fn_result) = fn_configs

\* C7 as amended: a configuration vector whose components are non-empty, hold
\* neither '-' nor white space and are not "latest" is read back from its file
\* name as the same vector.
PlainComponent(text) == Len(text) = 1 /\ text[1] \notin {"-", " ", "latest"}

C7_RoundTripPlain ==
  (fn_pc = "done" /\ \A i \in DOMAIN fn_configs : PlainComponent(fn_configs[i])) =>
    AsTexts(fn_result) = fn_configs

C7_Witness ==
  /\ fn_pc = "done" /\ Len(fn_configs) = 2
  /\ \A i \in DOMAIN fn_configs : PlainComponent(fn_configs[i])
  /\ fn_configs[1] # fn_configs[2]
  /\ Len(fn_result) = 2
====
